---------------------------- MODULE Spec2Model ----------------------------
(***************************************************************************)
(* Model of the boundary-value cycler getCycledValue<T>(index) of          *)
(* src/hdf5/compoundexamples/writer.cpp and of the programs that use it.   *)
(*                                                                         *)
(* C++ integers of up to 64 bits do not fit TLC's 32-bit integers, so a    *)
(* C++ integer value is modelled as an exact sign-magnitude number whose   *)
(* magnitude is a little-endian sequence of base-256 limbs.  The C++       *)
(* arithmetic of the function (integral promotion, truncating division,    *)
(* unsigned wrap-around, conversion on assignment to T) is modelled on top *)
(* of that exact arithmetic.                                               *)
(***************************************************************************)
EXTENDS Integers, Sequences, FiniteSets, TLC

VARIABLES first, last, ncalls,     \* the calls made by a single caller
          thr, frames,             \* the calls made by concurrent threads
          wpc, wi, records, gencalls, written, wsteps, wthrown, wout, wexit,
                                   \* the compound writer (writer.cpp main)
          rpc, rfile, rn, rcount, rbuf, ri, rreads, rlive, ruses, rreclaims,
          rthrown, rout, rexit,    \* the compound reader (reader.cpp main)
          prog, epc, efile, ewritten, ehandles, edesc, enested, ethrown, eout,
          eexit                    \* the stand-alone example programs

gvars == <<first, last, ncalls>>

tvars == <<thr, frames>>

wvars == <<wpc, wi, records, gencalls, written, wsteps, wthrown, wout, wexit>>

rvars == <<rpc, rfile, rn, rcount, rbuf, ri, rreads, rlive, ruses, rreclaims,
           rthrown, rout, rexit>>

evars == <<prog, epc, efile, ewritten, ehandles, edesc, enested, ethrown, eout,
           eexit>>

vars == <<gvars, tvars, wvars, rvars, evars>>

\* what the single caller, the threads, the writer, the reader and the
\* example programs leave unchanged
notG == <<tvars, wvars, rvars, evars>>

notT == <<gvars, wvars, rvars, evars>>

notW == <<gvars, tvars, rvars, evars>>

notR == <<gvars, tvars, wvars, evars>>

notE == <<gvars, tvars, wvars, rvars>>

-----------------------------------------------------------------------------
(* Bounds of the model *)

\* indices -MaxIndex .. MaxIndex are passed to the generator
MaxIndex == 9

\* the calls made are counted up to MaxCalls
MaxCalls == 3

\* the number of threads that call the generator concurrently
MaxThreads == 2

\* the number of records the writer prepares (NUM_RECORDS, scaled down)
MaxRecords == 10

\* the file the reader opens holds 0 .. MaxFileRecords records
MaxFileRecords == 11

\* numeric limits of the hypothetical types range over -MaxLimit .. MaxLimit
MaxLimit == 2

-----------------------------------------------------------------------------
(* Exact integers: [neg, mag], mag little-endian base-256, no high zero limb *)

Base == 256

RECURSIVE Trim(_)
Trim(s) ==
    IF s = <<>> THEN <<>>
    ELSE IF s[Len(s)] = 0 THEN Trim(SubSeq(s, 1, Len(s) - 1))
    ELSE s

RECURSIVE NatFromInt(_)
NatFromInt(n) ==
    IF n = 0 THEN <<>> ELSE <<n % Base>> \o NatFromInt(n \div Base)

RECURSIVE NatAdd(_, _, _)
NatAdd(a, b, c) ==
    IF a = <<>> /\ b = <<>>
    THEN (IF c = 0 THEN <<>> ELSE <<c>>)
    ELSE LET x == IF a = <<>> THEN 0 ELSE Head(a)
             y == IF b = <<>> THEN 0 ELSE Head(b)
             s == x + y + c
         IN  <<s % Base>> \o NatAdd(IF a = <<>> THEN a ELSE Tail(a),
                                    IF b = <<>> THEN b ELSE Tail(b),
                                    s \div Base)

\* a - b - c for magnitudes with a >= b + c
RECURSIVE NatSub(_, _, _)
NatSub(a, b, c) ==
    IF a = <<>> THEN <<>>
    ELSE LET y == IF b = <<>> THEN 0 ELSE Head(b)
             d == Head(a) - y - c
         IN  <<d % Base>> \o NatSub(Tail(a),
                                    IF b = <<>> THEN b ELSE Tail(b),
                                    IF d < 0 THEN 1 ELSE 0)

\* a < b for trimmed magnitudes, decided at the most significant difference
RECURSIVE NatLessFrom(_, _, _)
NatLessFrom(a, b, k) ==
    IF k = 0 THEN FALSE
    ELSE IF a[k] # b[k] THEN a[k] < b[k]
    ELSE NatLessFrom(a, b, k - 1)

NatLess(a, b) ==
    IF Len(a) # Len(b) THEN Len(a) < Len(b) ELSE NatLessFrom(a, b, Len(a))

RECURSIVE NatMul(_, _, _)
NatMul(a, m, c) ==
    IF a = <<>> THEN NatFromInt(c)
    ELSE LET p == Head(a) * m + c
         IN  <<p % Base>> \o NatMul(Tail(a), m, p \div Base)

\* quotient and remainder of a magnitude by a small positive divisor
RECURSIVE NatDivRem(_, _)
NatDivRem(a, d) ==
    IF a = <<>> THEN [q |-> <<>>, r |-> 0]
    ELSE LET hi  == NatDivRem(Tail(a), d)
             cur == hi.r * Base + Head(a)
         IN  [q |-> <<cur \div d>> \o hi.q, r |-> cur % d]

Mk(neg, mag) ==
    LET m == Trim(mag) IN [neg |-> neg /\ m # <<>>, mag |-> m]

Num(n) == Mk(n < 0, NatFromInt(IF n < 0 THEN 0 - n ELSE n))

Zero == Num(0)

One == Num(1)

Neg(x) == Mk(~x.neg, x.mag)

Add(x, y) ==
    IF x.neg = y.neg THEN Mk(x.neg, NatAdd(x.mag, y.mag, 0))
    ELSE IF NatLess(x.mag, y.mag) THEN Mk(y.neg, NatSub(y.mag, x.mag, 0))
    ELSE Mk(x.neg, NatSub(x.mag, y.mag, 0))

Sub(x, y) == Add(x, Neg(y))

Less(x, y) ==
    IF x.neg # y.neg THEN x.neg
    ELSE IF x.neg THEN NatLess(y.mag, x.mag)
    ELSE NatLess(x.mag, y.mag)

Leq(x, y) == ~Less(y, x)

\* C++ x * m for a small non-negative m, exact
Mul(x, m) == Mk(x.neg, NatMul(x.mag, m, 0))

\* C++ x / d: the quotient truncated toward zero (d a small positive number)
Quot(x, d) == Mk(x.neg, NatDivRem(x.mag, d).q)

\* C++ x % d: the remainder has the sign of the dividend
Rem(x, d) == Mk(x.neg, NatFromInt(NatDivRem(x.mag, d).r))

\* C++ a % b on int operands small enough for TLC, b > 0
IntRem(a, b) == IF a >= 0 THEN a % b ELSE 0 - ((0 - a) % b)

\* 2^n
Pow2(n) == Mk(FALSE, [k \in 1..(n \div 8) |-> 0] \o <<2 ^ (n % 8)>>)

\* x modulo 2^w, in 0 .. 2^w - 1 (w a multiple of 8)
ModPow2(x, w) ==
    LET low == Trim(SubSeq(x.mag, 1, IF Len(x.mag) < w \div 8
                                     THEN Len(x.mag) ELSE w \div 8))
    IN  IF x.neg /\ low # <<>> THEN Sub(Pow2(w), Mk(FALSE, low))
        ELSE Mk(FALSE, low)

-----------------------------------------------------------------------------
(* Integer types: name, signedness, width in bits, numeric_limits min/max *)

IntegralType(name, signed, bits) ==
    [name |-> name, signed |-> signed, bits |-> bits,
     min |-> IF signed THEN Neg(Pow2(bits - 1)) ELSE Zero,
     max |-> IF signed THEN Sub(Pow2(bits - 1), One) ELSE Sub(Pow2(bits), One)]

int8_t == IntegralType("int8_t", TRUE, 8)

uint8_t == IntegralType("uint8_t", FALSE, 8)

int16_t == IntegralType("int16_t", TRUE, 16)

uint16_t == IntegralType("uint16_t", FALSE, 16)

int32_t == IntegralType("int32_t", TRUE, 32)

uint32_t == IntegralType("uint32_t", FALSE, 32)

int64_t == IntegralType("int64_t", TRUE, 64)

uint64_t == IntegralType("uint64_t", FALSE, 64)

\* the eight instantiations of getCycledValue the writer makes
IntTypes ==
    {int8_t, uint8_t, int16_t, uint16_t, int32_t, uint32_t, int64_t, uint64_t}

\* a type the comment at the max_val <= 0 test calls hypothetical: stored in
\* 8 bits, with numeric limits lo and hi that leave it no valid range
HypotheticalType(signed, lo, hi) ==
    [name |-> "hypothetical", signed |-> signed, bits |-> 8,
     min |-> Num(lo), max |-> Num(hi)]

HypotheticalTypes ==
    {HypotheticalType(TRUE, lo, hi) :
        lo \in (0 - MaxLimit)..MaxLimit, hi \in (0 - MaxLimit)..MaxLimit}
    \cup {HypotheticalType(FALSE, lo, hi) : lo \in 0..MaxLimit, hi \in 0..MaxLimit}

NoValidRange(T) == Leq(T.max, T.min)

\* the type int of the platform (32 bits), to which narrower operands promote
int_t == IntegralType("int", TRUE, 32)

Promote(T) == IF T.bits < int_t.bits THEN int_t ELSE T

\* conversion of the exact value x to type T: modulo 2^bits, two's complement
ConvertTo(T, x) ==
    LET u == ModPow2(x, T.bits)
    IN  IF T.signed /\ Leq(Pow2(T.bits - 1), u) THEN Sub(u, Pow2(T.bits))
        ELSE u

Representable(T, x) == ConvertTo(T, x) = x

\* the value of an arithmetic expression on operands of type T whose exact
\* result is x: computed in the promoted type
Arith(T, x) == ConvertTo(Promote(T), x)

\* signed arithmetic whose exact result x leaves the promoted type is undefined
Overflows(T, x) == Promote(T).signed /\ ~Representable(Promote(T), x)

-----------------------------------------------------------------------------
(* getCycledValue<T>(index) *)

cycleLength == 5

min_val(T) == T.min

max_val(T) == T.max

\* a cycle twice as long: the positions 5..9 reach the default branch
cycleIndex_long(index) == IntRem(index, 2 * cycleLength)

\* the remainder taken as the mathematical modulus, never negative
cycleIndex_floor(index) == index % cycleLength

cycleIndex(index) == IntRem(index, cycleLength)

\* result declared with the unsigned counterpart of T
StoreResult_unsigned(T, x) == ModPow2(x, T.bits)

\* `T result; ... result = x;`: the value is converted to T when it is stored
StoreResult(T, x) == ConvertTo(T, x)

\* the halving left out: half_max = max_val
half_max_whole(T) == ConvertTo(T, max_val(T))

half_max(T) == ConvertTo(T, Arith(T, Quot(max_val(T), 2)))

\* (max_val % 2 != 0 ? 1 : 0)
odd_max(T) == IF Arith(T, Rem(max_val(T), 2)) # Zero THEN One ELSE Zero

\* the quarter taken as the half: q1 = max_val / 2
q1_half(T) == ConvertTo(T, Arith(T, Quot(max_val(T), 2)))

q1(T) == ConvertTo(T, Arith(T, Quot(max_val(T), 4)))

\* if (max_val <= 0): the first fallback of case 1
max_nonpositive(T) == Leq(max_val(T), Zero)

\* result = -half_max - (max_val % 2 != 0 ? 1 : 0)
neg_half(T) ==
    StoreResult(T, Arith(T, Sub(Arith(T, Neg(half_max(T))), odd_max(T))))

\* if (result > static_cast<T>(0)): the second fallback of case 1
wrapped(T) == Less(ConvertTo(T, Zero), neg_half(T))

\* the minimum taken for the negated maximum
case0_negmax(T) == StoreResult(T, Arith(T, Neg(max_val(T))))

\* case 0: minimum value
case0(T) == StoreResult(T, min_val(T))

\* the correction for an odd max_val left out: -half_max
case1_truncated(T) ==
    IF T.signed
    THEN IF Leq(max_val(T), Zero) THEN StoreResult(T, min_val(T))
         ELSE LET result == StoreResult(T, Arith(T, Neg(half_max(T))))
              IN  IF Less(ConvertTo(T, Zero), result)
                  THEN StoreResult(T, min_val(T))
                  ELSE result
    ELSE StoreResult(T, Arith(T, Quot(max_val(T), 4)))

\* case 1: approx -max/2 (signed) or max/4 (unsigned)
case1(T) ==
    IF T.signed
    THEN IF max_nonpositive(T) THEN StoreResult(T, min_val(T))
         ELSE IF wrapped(T) THEN StoreResult(T, min_val(T))
         ELSE neg_half(T)
    ELSE StoreResult(T, Arith(T, Quot(max_val(T), 4)))

\* the midpoint max/2 returned for signed types too
case2_midpoint(T) == StoreResult(T, Arith(T, Quot(max_val(T), 2)))

\* case 2: zero (signed) or approx max/2 (unsigned)
case2(T) ==
    IF T.signed THEN StoreResult(T, ConvertTo(T, Zero))
    ELSE StoreResult(T, Arith(T, Quot(max_val(T), 2)))

\* the product taken before the quotient: max_val * 3 / 4
case3_mulfirst(T) ==
    IF T.signed THEN StoreResult(T, Arith(T, Quot(max_val(T), 2)))
    ELSE StoreResult(T, Arith(T, Quot(Arith(T, Mul(max_val(T), 3)), 4)))

\* case 3: approx max/2 (signed) or approx 3*max/4 (unsigned)
case3(T) ==
    IF T.signed THEN StoreResult(T, Arith(T, Quot(max_val(T), 2)))
    ELSE StoreResult(T, Arith(T, Mul(q1(T), 3)))

\* case 4 and default: maximum value
case4(T) == StoreResult(T, max_val(T))

\* case 2 without its assignments: result is returned as it was declared
getCycledValue_unassigned(T, index, uninit) ==
    CASE cycleIndex(index) = 0 -> case0(T)
      [] cycleIndex(index) = 1 -> case1(T)
      [] cycleIndex(index) = 2 -> uninit
      [] cycleIndex(index) = 3 -> case3(T)
      [] OTHER -> case4(T)

\* uninit is the indeterminate content of the local `result` at its
\* declaration; every branch of the switch assigns result before the return
getCycledValue(T, index, uninit) ==
    CASE cycleIndex(index) = 0 -> case0(T)
      [] cycleIndex(index) = 1 -> case1(T)
      [] cycleIndex(index) = 2 -> case2(T)
      [] cycleIndex(index) = 3 -> case3(T)
      [] OTHER -> case4(T)

\* some signed intermediate result of the call leaves its promoted type
undefined(T, index) ==
    \/ /\ cycleIndex(index) = 1
       /\ T.signed
       /\ Less(Zero, max_val(T))
       /\ \/ Overflows(T, Neg(half_max(T)))
          \/ Overflows(T, Sub(Arith(T, Neg(half_max(T))), odd_max(T)))
    \/ /\ cycleIndex(index) = 3
       /\ ~T.signed
       /\ Overflows(T, Mul(q1(T), 3))

\* values an indeterminate object of type T may hold (representatives)
Indeterminate(T) == {min_val(T), max_val(T)}

-----------------------------------------------------------------------------
(* The callers: first and last hold the first and the latest call made,     *)
(* ncalls counts the calls made so far, up to MaxCalls                      *)

Indices == (0 - MaxIndex)..MaxIndex

GenInit ==
    /\ first = <<>>
    /\ last = <<>>
    /\ ncalls = 0

Threads == 1..MaxThreads

\* the storage that holds the locals of the call made by thread t: cycleIndex
\* and result are automatic, so every call has a frame of its own
slot_static(t) == 1

slot(t) == t

EmptyFrame == [cycleIndex |-> 0, result |-> Zero]

ThreadInit ==
    /\ thr = [t \in Threads |->
                [pc |-> "idle", args |-> <<>>, ret |-> <<>>, overlapped |-> FALSE]]
    /\ frames = [t \in Threads |-> EmptyFrame]

\* the writer before main starts
WriterInit ==
    /\ wpc = "create_file"
    /\ wi = 0
    /\ records = <<>>
    /\ gencalls = <<>>
    /\ written = <<>>
    /\ wsteps = {}
    /\ wthrown = <<>>
    /\ wout = <<>>
    /\ wexit = <<>>

\* the reader before main starts, the dataset of the file holding `file`
ReaderStart(file) ==
    /\ rpc = "open_file"
    /\ rfile = file
    /\ rn = <<>>
    /\ rcount = <<>>
    /\ rbuf = <<>>
    /\ ri = 0
    /\ rreads = <<>>
    /\ rlive = "none"
    /\ ruses = <<>>
    /\ rreclaims = 0
    /\ rthrown = <<>>
    /\ rout = <<>>
    /\ rexit = <<>>

\* the four handles of create_single_int
HandleNames == {"fapl_id", "file_id", "dataspace_id", "dataset_id"}

\* a file that does not exist
NoFile == [exists |-> FALSE, datasets |-> {}]

\* a position in an example program: a statement and, where the statement is
\* one of a series, its place in the series
At(step, k) == [at |-> step, k |-> k]

\* a compound datatype descriptor nothing has been put into
EmptyDesc == [size |-> 0, members |-> <<>>]

\* example program p before its main starts, its output file being file
ExampleStart(p, file) ==
    /\ prog = p
    /\ epc = At("start", 0)
    /\ efile = file
    /\ ewritten = {}
    /\ ehandles = [h \in HandleNames |-> "none"]
    /\ edesc = EmptyDesc
    /\ enested = EmptyDesc
    /\ ethrown = <<>>
    /\ eout = <<>>
    /\ eexit = <<>>

Init ==
    /\ GenInit
    /\ ThreadInit
    /\ WriterInit
    /\ ReaderStart(<<>>)
    /\ ExampleStart("none", NoFile)

\* one call getCycledValue<T>(index), run to its return statement; how records
\* the way the call ended: the body has no assert, throw or abort (its one
\* static_assert tests is_integral_v<T> only), so every path returns result
Call(T, index) ==
    \E uninit \in Indeterminate(T) :
      \E r \in (IF undefined(T, index) THEN Indeterminate(T)
                ELSE {getCycledValue(T, index, uninit)}) :
        LET c == [type |-> T, index |-> index, ret |-> r, how |-> "returned"]
        IN  /\ last' = <<c>>
            /\ first' = IF first = <<>> THEN <<c>> ELSE first
            /\ ncalls' = IF ncalls < MaxCalls THEN ncalls + 1 ELSE ncalls
            /\ UNCHANGED notG

Next == \E T \in IntTypes, index \in Indices : Call(T, index)

Spec == Init /\ [][Next]_vars

\* the same function instantiated with types that have no valid range
NextHypothetical ==
    \E T \in {H \in HypotheticalTypes : NoValidRange(H)},
       index \in 0..(cycleLength - 1) : Call(T, index)

SpecHypothetical == Init /\ [][NextHypothetical]_vars

-----------------------------------------------------------------------------
(* Concurrent callers: each thread runs calls of getCycledValue step by     *)
(* step, the steps of different threads interleave                          *)

\* the narrowest and the widest instantiation, one signed and one unsigned
ThreadTypes == {int8_t, uint64_t}

ThreadIndices == 0..(cycleLength - 1)

InCall(t) == thr[t].pc \in {"switch", "return"}

\* the switch statement on the stored cycleIndex ci
switch_result(T, ci) ==
    CASE ci = 0 -> case0(T)
      [] ci = 1 -> case1(T)
      [] ci = 2 -> case2(T)
      [] ci = 3 -> case3(T)
      [] OTHER -> case4(T)

\* thread t enters getCycledValue<T>(index): int cycleIndex = index % cycleLength
Enter(t, T, index) ==
    /\ ~InCall(t)
    /\ thr' = [u \in Threads |->
                IF u = t
                THEN [pc |-> "switch", args |-> <<[type |-> T, index |-> index]>>,
                      ret |-> <<>>,
                      overlapped |-> \E v \in Threads \ {t} : InCall(v)]
                ELSE IF InCall(u) THEN [thr[u] EXCEPT !.overlapped = TRUE]
                ELSE thr[u]]
    /\ frames' = [frames EXCEPT ![slot(t)].cycleIndex = cycleIndex(index)]
    /\ UNCHANGED notT

\* thread t runs the switch: it reads cycleIndex and assigns result
Switch(t) ==
    /\ thr[t].pc = "switch"
    /\ thr' = [thr EXCEPT ![t].pc = "return"]
    /\ frames' = [frames EXCEPT ![slot(t)].result =
                      switch_result(thr[t].args[1].type,
                                    frames[slot(t)].cycleIndex)]
    /\ UNCHANGED notT

\* thread t returns result; the frame of the call ends with it
Return(t) ==
    /\ thr[t].pc = "return"
    /\ thr' = [thr EXCEPT ![t].pc = "done",
                          ![t].ret = <<frames[slot(t)].result>>]
    /\ frames' = [frames EXCEPT ![slot(t)] = EmptyFrame]
    /\ UNCHANGED notT

NextThreads ==
    \E t \in Threads :
        \/ \E T \in ThreadTypes, index \in ThreadIndices : Enter(t, T, index)
        \/ Switch(t)
        \/ Return(t)

SpecThreads == Init /\ [][NextThreads]_vars

-----------------------------------------------------------------------------
(* Bit operations on non-negative exact integers *)

RECURSIVE ByteAnd(_, _)
ByteAnd(a, b) ==
    IF a = 0 \/ b = 0 THEN 0
    ELSE (a % 2) * (b % 2) + 2 * ByteAnd(a \div 2, b \div 2)

ByteOr(a, b) == a + b - ByteAnd(a, b)

Limb(m, k) == IF k <= Len(m) THEN m[k] ELSE 0

\* x & y
BitAnd(x, y) ==
    Mk(FALSE, [k \in 1..(IF Len(x.mag) < Len(y.mag) THEN Len(x.mag)
                          ELSE Len(y.mag)) |-> ByteAnd(x.mag[k], y.mag[k])])

\* x | y
BitOr(x, y) ==
    Mk(FALSE, [k \in 1..(IF Len(x.mag) < Len(y.mag) THEN Len(y.mag)
                          ELSE Len(x.mag)) |->
                 ByteOr(Limb(x.mag, k), Limb(y.mag, k))])

\* x << n in uint64_t
ShiftLeft(x, n) == ConvertTo(uint64_t, Mul(x, 2 ^ n))

\* x >> n
ShiftRight(x, n) == Quot(x, 2 ^ n)

-----------------------------------------------------------------------------
(* The compound writer: main of writer.cpp *)

\* NUM_RECORDS is 1000 in common.h; the model prepares MaxRecords records
NUM_RECORDS == MaxRecords

\* the integer members of Record in the order the loop body assigns them
FieldNames ==
    <<"int8_Val", "uint8_Val", "int16_Val", "uint16_Val",
      "int32_Val", "uint32_Val", "int64_Val", "uint64_Val">>

\* uint8_Val filled with the int8_t instantiation again
FieldTypes_dup ==
    <<int8_t, int8_t, int16_t, uint16_t, int32_t, uint32_t, int64_t, uint64_t>>

\* the instantiation called for each of them
FieldTypes ==
    <<int8_t, uint8_t, int16_t, uint16_t, int32_t, uint32_t, int64_t, uint64_t>>

CommonFields == {"recordId", "fixedStr", "varStr", "floatVal", "doubleVal"}

AllFields ==
    CommonFields \cup {FieldNames[k] : k \in 1..8} \cup {"scaledUintVal"}

\* an element of std::vector<Record> records(NUM_RECORDS): value-initialised,
\* no member assigned yet (<<>>); an assigned member holds <<value>>
BlankRecord == [f \in AllFields |-> <<>>]

\* the 57-bit mask 0x01FFFFFFFFFFFFFF
Mask57 == Sub(Pow2(57), One)

\* the fraction shifted by 5 instead of 7
scaledUintVal_shift5(i) ==
    BitAnd(BitOr(ShiftLeft(Add(Num(i), One), 5), Num((i % 4) * 32)), Mask57)

\* value = ((uint64_t(i) + 1ULL) << 7) | ((i % 4) * 32);
\* records[i].scaledUintVal = value & 0x01FFFFFFFFFFFFFFULL
scaledUintVal(i) ==
    BitAnd(BitOr(ShiftLeft(Add(Num(i), One), 7), Num((i % 4) * 32)), Mask57)

\* the reader's interpretation: scaledUintVal >> 7 and scaledUintVal & 0x7F
decode_whole(v) == ShiftRight(v, 7)

decode_fraction(v) == BitAnd(v, Num(127))

ExceptionKinds == {"H5::Exception", "std::exception", "unknown"}

\* every catch clause of the writer returns 1, the last one swallows
CatchStatus_swallow(kind) == IF kind = "unknown" THEN 0 ELSE 1

\* every catch clause of the writer returns 1
CatchStatus(kind) == 1

\* a library call or allocation at position wpc throws
W_Throw(step) ==
    /\ wpc = step
    /\ \E kind \in ExceptionKinds :
          wthrown' = <<[step |-> step, kind |-> kind]>>
    /\ wpc' = "catch"
    /\ UNCHANGED <<wi, records, gencalls, written, wsteps, wout, wexit>>
    /\ UNCHANGED notW

\* the call at position step completes, prints msgs and goes on to next
W_Step(step, next, msgs) ==
    /\ wpc = step
    /\ wpc' = next
    /\ wsteps' = wsteps \cup {step}
    /\ wout' = wout \o msgs
    /\ UNCHANGED <<wi, records, gencalls, written, wthrown, wexit>>
    /\ UNCHANGED notW

\* H5::H5File file(FILE_NAME, H5F_ACC_TRUNC)
W_CreateFile ==
    \/ W_Step("create_file", "create_type", <<>>)
    \/ W_Throw("create_file")

\* createCompoundType()
W_CreateType ==
    \/ W_Step("create_type", "create_space", <<>>)
    \/ W_Throw("create_type")

\* H5::DataSpace dataspace(1, dims)
W_CreateSpace ==
    \/ W_Step("create_space", "create_dataset", <<>>)
    \/ W_Throw("create_space")

\* file.createDataSet(DATASET_NAME, compound_type, dataspace)
W_CreateDataSet ==
    \/ W_Step("create_dataset", "create_attribute", <<"Dataset created">>)
    \/ W_Throw("create_dataset")

\* the attribute's type, dataspace and dataset.createAttribute
W_CreateAttribute ==
    \/ W_Step("create_attribute", "write_attribute", <<>>)
    \/ W_Throw("create_attribute")

\* attribute.write(attr_type, &attr_data_ptr)
W_WriteAttribute ==
    \/ W_Step("write_attribute", "allocate", <<"Attribute written">>)
    \/ W_Throw("write_attribute")

\* std::vector<Record> records(NUM_RECORDS) and varStrings
W_Allocate ==
    \/ /\ wpc = "allocate"
       /\ wpc' = "loop"
       /\ records' = [k \in 1..NUM_RECORDS |-> BlankRecord]
       /\ wi' = 0
       /\ wsteps' = wsteps \cup {"allocate"}
       /\ wout' = wout \o <<"Preparing records">>
       /\ UNCHANGED <<gencalls, written, wthrown, wexit>>
       /\ UNCHANGED notW
    \/ W_Throw("allocate")

\* for (size_t i = 0; i < NUM_RECORDS; ++i): the test
W_LoopTest ==
    /\ wpc = "loop"
    /\ IF wi < NUM_RECORDS
       THEN wpc' = "common" /\ wout' = wout
       ELSE /\ wpc' = "write_data"
            /\ wout' = wout \o <<"Record preparation complete", "Writing data">>
    /\ UNCHANGED <<wi, records, gencalls, written, wsteps, wthrown, wexit>>
    /\ UNCHANGED notW

\* recordId, fixedStr, varStr, floatVal and doubleVal of records[i]
W_Common ==
    \/ /\ wpc = "common"
       /\ records' = [records EXCEPT ![wi + 1] =
                         [f \in AllFields |->
                            CASE f = "recordId" -> <<Num(1000 + wi)>>
                              [] f = "fixedStr" -> <<"FixedData">>
                              [] f = "varStr" -> <<[text |-> "varStr:", number |-> wi + 1]>>
                              [] f = "floatVal" -> <<[index |-> wi, times |-> "3.14f"]>>
                              [] f = "doubleVal" -> <<[index |-> wi, times |-> "2.718"]>>
                              [] OTHER -> records[wi + 1][f]]]
       /\ wpc' = "field_1"
       /\ UNCHANGED <<wi, gencalls, written, wsteps, wthrown, wout, wexit>>
       /\ UNCHANGED notW
    \/ W_Throw("common")

FieldPc(k) == <<"field_1", "field_2", "field_3", "field_4",
                "field_5", "field_6", "field_7", "field_8">>[k]

\* records[i].<k-th integer member> = getCycledValue<T>(i)
W_Field(k) ==
    /\ wpc = FieldPc(k)
    /\ \E uninit \in Indeterminate(FieldTypes[k]) :
         \E r \in (IF undefined(FieldTypes[k], wi) THEN Indeterminate(FieldTypes[k])
                   ELSE {getCycledValue(FieldTypes[k], wi, uninit)}) :
            records' = [records EXCEPT ![wi + 1][FieldNames[k]] = <<r>>]
    /\ gencalls' = Append(gencalls, [type |-> FieldTypes[k].name, index |-> wi])
    /\ wpc' = IF k < 8 THEN FieldPc(k + 1) ELSE "scaled"
    /\ UNCHANGED <<wi, written, wsteps, wthrown, wout, wexit>>
    /\ UNCHANGED notW

\* records[i].scaledUintVal, then ++i
W_Scaled ==
    /\ wpc = "scaled"
    /\ records' = [records EXCEPT ![wi + 1]["scaledUintVal"] =
                      <<scaledUintVal(wi)>>]
    /\ wi' = wi + 1
    /\ wpc' = "loop"
    /\ UNCHANGED <<gencalls, written, wsteps, wthrown, wout, wexit>>
    /\ UNCHANGED notW

\* dataset.write(records.data(), compound_type) and the messages after it
W_WriteData ==
    \/ /\ wpc = "write_data"
       /\ written' = Append(written, records)
       /\ wsteps' = wsteps \cup {"write_data"}
       /\ wout' = wout \o <<"Data written", "HDF5 file written successfully">>
       /\ wpc' = "return"
       /\ UNCHANGED <<wi, records, gencalls, wthrown, wexit>>
       /\ UNCHANGED notW
    \/ W_Throw("write_data")

\* return 0 after the try block
W_Return ==
    /\ wpc = "return"
    /\ wexit' = <<0>>
    /\ wpc' = "exited"
    /\ UNCHANGED <<wi, records, gencalls, written, wsteps, wthrown, wout>>
    /\ UNCHANGED notW

\* the catch clauses: report on stderr and return 1
W_Catch ==
    /\ wpc = "catch"
    /\ wexit' = <<CatchStatus(wthrown[1].kind)>>
    /\ wpc' = "exited"
    /\ UNCHANGED <<wi, records, gencalls, written, wsteps, wthrown, wout>>
    /\ UNCHANGED notW

NextWriter ==
    \/ W_CreateFile
    \/ W_CreateType
    \/ W_CreateSpace
    \/ W_CreateDataSet
    \/ W_CreateAttribute
    \/ W_WriteAttribute
    \/ W_Allocate
    \/ W_LoopTest
    \/ W_Common
    \/ \E k \in 1..8 : W_Field(k)
    \/ W_Scaled
    \/ W_WriteData
    \/ W_Return
    \/ W_Catch

SpecWriter == Init /\ [][NextWriter]_vars

-----------------------------------------------------------------------------
(* The compound reader: main of reader.cpp *)

\* record i as the writer's loop body prepares it
PreparedRecord(i) ==
    [f \in AllFields |->
       CASE f = "recordId" -> <<Num(1000 + i)>>
         [] f = "fixedStr" -> <<"FixedData">>
         [] f = "varStr" -> <<[text |-> "varStr:", number |-> i + 1]>>
         [] f = "floatVal" -> <<[index |-> i, times |-> "3.14f"]>>
         [] f = "doubleVal" -> <<[index |-> i, times |-> "2.718"]>>
         [] f = "scaledUintVal" -> <<scaledUintVal(i)>>
         [] OTHER ->
              LET k == CHOOSE j \in 1..8 : FieldNames[j] = f
              IN  <<getCycledValue(FieldTypes[k], i, min_val(FieldTypes[k]))>>]

\* the dataset of a file the writer wrote with n records
FileWith(n) == [k \in 1..n |-> PreparedRecord(k - 1)]

InitReader ==
    /\ GenInit
    /\ ThreadInit
    /\ WriterInit
    /\ ExampleStart("none", NoFile)
    /\ \E n \in 0..MaxFileRecords : ReaderStart(FileWith(n))

\* every record of the file is read
RecordsToRead_all(n) == n

\* std::min<hsize_t>(10, numRecordsInFile)
RecordsToRead(n) == IF 10 < n THEN 10 ELSE n

\* the print loop left one record early
LoopDone_early(i, count) == ~(i < count - 1)

\* the print loop ends when i < recordsToRead fails
LoopDone(i, count) == ~(i < count)

\* the exceptions the reader has catch clauses for
ReaderExceptionKinds ==
    {"H5::FileIException", "H5::DataSetIException", "H5::DataSpaceIException",
     "H5::DataTypeIException", "H5::Exception", "std::exception"}

\* every catch clause of the reader returns 1
ReaderCatchStatus(kind) == 1

\* a library call or allocation at position step throws
R_Throw(step) ==
    /\ rpc = step
    /\ \E kind \in ReaderExceptionKinds :
          rthrown' = <<[step |-> step, kind |-> kind]>>
    /\ rpc' = "catch"
    /\ UNCHANGED <<rfile, rn, rcount, rbuf, ri, rreads, rlive, ruses, rreclaims,
                   rout, rexit>>
    /\ UNCHANGED notR

\* the call at position step completes and main goes on to next
R_Step(step, next) ==
    /\ rpc = step
    /\ rpc' = next
    /\ UNCHANGED <<rfile, rn, rcount, rbuf, ri, rreads, rlive, ruses, rreclaims,
                   rthrown, rout, rexit>>
    /\ UNCHANGED notR

\* H5File file(FILE_NAME, H5F_ACC_RDONLY)
R_OpenFile ==
    \/ R_Step("open_file", "open_dataset")
    \/ R_Throw("open_file")

\* file.openDataSet(DATASET_NAME)
R_OpenDataSet ==
    \/ R_Step("open_dataset", "get_dims")
    \/ R_Throw("open_dataset")

\* dataset.getSpace(), getSimpleExtentDims: numRecordsInFile = dims[0]
R_GetDims ==
    \/ /\ rpc = "get_dims"
       /\ rn' = <<Len(rfile)>>
       /\ rout' = Append(rout, "Total number of records in file")
       /\ rpc' = "create_type"
       /\ UNCHANGED <<rfile, rcount, rbuf, ri, rreads, rlive, ruses, rreclaims,
                      rthrown, rexit>>
       /\ UNCHANGED notR
    \/ R_Throw("get_dims")

\* CompType compoundType = createCompoundType()
R_CreateType ==
    \/ R_Step("create_type", "count")
    \/ R_Throw("create_type")

\* recordsToRead = min(10, numRecordsInFile); if it is 0, report and return 0
R_Count ==
    /\ rpc = "count"
    /\ rcount' = <<RecordsToRead(rn[1])>>
    /\ IF RecordsToRead(rn[1]) = 0
       THEN /\ rout' = Append(rout, "No records to read.")
            /\ rexit' = <<0>>
            /\ rpc' = "exited"
       ELSE /\ rpc' = "allocate"
            /\ UNCHANGED <<rout, rexit>>
    /\ UNCHANGED <<rfile, rn, rbuf, ri, rreads, rlive, ruses, rreclaims, rthrown>>
    /\ UNCHANGED notR

\* std::vector<Record> records(recordsToRead)
R_Allocate ==
    \/ R_Step("allocate", "select")
    \/ R_Throw("allocate")

\* filespace.selectHyperslab(H5S_SELECT_SET, count, offset); memspace(1, count)
R_Select ==
    \/ R_Step("select", "read")
    \/ R_Throw("select")

\* dataset.read(records.data(), compoundType, memspace, filespace): offset 0,
\* count recordsToRead; the library allocates the varStr of every record read
R_Read ==
    \/ /\ rpc = "read"
       /\ rreads' = Append(rreads, [offset |-> 0, count |-> rcount[1], ok |-> TRUE])
       /\ rbuf' = SubSeq(rfile, 1, rcount[1])
       /\ rlive' = "allocated"
       /\ rout' = Append(rout, "First records:")
       /\ ri' = 0
       /\ rpc' = "print"
       /\ UNCHANGED <<rfile, rn, rcount, ruses, rreclaims, rthrown, rexit>>
       /\ UNCHANGED notR
    \/ /\ rpc = "read"
       /\ rreads' = Append(rreads, [offset |-> 0, count |-> rcount[1], ok |-> FALSE])
       /\ \E kind \in ReaderExceptionKinds :
             rthrown' = <<[step |-> "read", kind |-> kind]>>
       /\ rpc' = "catch"
       /\ UNCHANGED <<rfile, rn, rcount, rbuf, ri, rlive, ruses, rreclaims,
                      rout, rexit>>
       /\ UNCHANGED notR

\* one pass of the print loop: record i with its varStr and the interpreted
\* scaledUintVal
R_Print ==
    /\ rpc = "print"
    /\ ~LoopDone(ri, rcount[1])
    /\ ruses' = Append(ruses, [record |-> ri, live |-> rlive = "allocated"])
    /\ rout' = Append(rout,
                      [record |-> ri,
                       varStr |-> rbuf[ri + 1]["varStr"][1],
                       raw |-> rbuf[ri + 1]["scaledUintVal"][1],
                       whole |-> decode_whole(rbuf[ri + 1]["scaledUintVal"][1]),
                       fraction |->
                           decode_fraction(rbuf[ri + 1]["scaledUintVal"][1])])
    /\ ri' = ri + 1
    /\ UNCHANGED <<rpc, rfile, rn, rcount, rbuf, rreads, rlive, rreclaims,
                   rthrown, rexit>>
    /\ UNCHANGED notR

\* H5Dvlen_reclaim after the loop; it reports failure by its status
R_Reclaim ==
    /\ rpc = "print"
    /\ LoopDone(ri, rcount[1])
    /\ rreclaims' = rreclaims + 1
    /\ \E status \in {-1, 0} :
          IF status < 0
          THEN /\ rlive' = rlive
               /\ rout' = rout \o <<"Successfully read and printed">>
          ELSE /\ rlive' = "reclaimed"
               /\ rout' = rout \o <<"Successfully reclaimed memory",
                                     "Successfully read and printed">>
    /\ rpc' = "return"
    /\ UNCHANGED <<rfile, rn, rcount, rbuf, ri, rreads, ruses, rthrown, rexit>>
    /\ UNCHANGED notR

\* return 0 after the try block
R_Return ==
    /\ rpc = "return"
    /\ rexit' = <<0>>
    /\ rpc' = "exited"
    /\ UNCHANGED <<rfile, rn, rcount, rbuf, ri, rreads, rlive, ruses, rreclaims,
                   rthrown, rout>>
    /\ UNCHANGED notR

\* the catch clauses: report on stderr and return 1
R_Catch ==
    /\ rpc = "catch"
    /\ rexit' = <<ReaderCatchStatus(rthrown[1].kind)>>
    /\ rpc' = "exited"
    /\ UNCHANGED <<rfile, rn, rcount, rbuf, ri, rreads, rlive, ruses, rreclaims,
                   rthrown, rout>>
    /\ UNCHANGED notR

NextReader ==
    \/ R_OpenFile
    \/ R_OpenDataSet
    \/ R_GetDims
    \/ R_CreateType
    \/ R_Count
    \/ R_Allocate
    \/ R_Select
    \/ R_Read
    \/ R_Print
    \/ R_Reclaim
    \/ R_Return
    \/ R_Catch

SpecReader == InitReader /\ [][NextReader]_vars

-----------------------------------------------------------------------------
(* The stand-alone example programs *)

Programs == {"create_single_int", "writescalar", "separatetypesgrok",
             "compound_alltypes_nested"}

\* H5F_ACC_TRUNC: the file exists and holds nothing
Truncated == [exists |-> TRUE, datasets |-> {}]

\* what an earlier run may have left where the program creates its file
InitialFiles == {NoFile, Truncated, [exists |-> TRUE, datasets |-> {"stale"}]}

InitExamples ==
    /\ GenInit
    /\ ThreadInit
    /\ WriterInit
    /\ ReaderStart(<<>>)
    /\ \E p \in Programs, file \in InitialFiles : ExampleStart(p, file)

\* the file after a dataset named name has been created in it
WithDataset(file, name) == [file EXCEPT !.datasets = @ \cup {name}]

-----------------------------------------------------------------------------
(* create_single_int.cpp: the C API, failures reported by return values *)

DATASET_NAME == "MyIntegerValue"

\* a close call that releases nothing
Close_leak(handles, name) == handles

\* H5Pclose, H5Fclose, H5Sclose, H5Dclose: an open handle becomes closed, a
\* call on an invalid handle fails and changes nothing
Close(handles, name) ==
    [handles EXCEPT ![name] = IF @ = "open" THEN "closed" ELSE @]

\* the program leaves with status after printing msg
CSI_Exit(status, msg) ==
    /\ eout' = Append(eout, msg)
    /\ eexit' = <<status>>
    /\ epc' = At("exited", 0)

\* fapl_id = H5Pcreate(H5P_FILE_ACCESS) and its check
CSI_PCreate ==
    /\ prog = "create_single_int"
    /\ epc = At("start", 0)
    /\ \/ /\ ehandles' = [ehandles EXCEPT !["fapl_id"] = "open"]
          /\ epc' = At("set_libver", 0)
          /\ UNCHANGED <<eout, eexit>>
       \/ /\ ehandles' = [ehandles EXCEPT !["fapl_id"] = "invalid"]
          /\ CSI_Exit(1, "Error creating file access property list.")
    /\ UNCHANGED <<prog, efile, ewritten, edesc, enested, ethrown>>
    /\ UNCHANGED notE

\* H5Pset_libver_bounds and its check
CSI_SetLibver ==
    /\ prog = "create_single_int"
    /\ epc = At("set_libver", 0)
    /\ \/ /\ eout' = Append(eout, "Configured to use latest HDF5 file format.")
          /\ epc' = At("fcreate", 0)
          /\ UNCHANGED <<ehandles, eexit>>
       \/ /\ ehandles' = Close(ehandles, "fapl_id")
          /\ CSI_Exit(1, "Error setting library version bounds.")
    /\ UNCHANGED <<prog, efile, ewritten, edesc, enested, ethrown>>
    /\ UNCHANGED notE

\* file_id = H5Fcreate(FILE_NAME, H5F_ACC_TRUNC, H5P_DEFAULT, fapl_id) and its
\* check
CSI_FCreate ==
    /\ prog = "create_single_int"
    /\ epc = At("fcreate", 0)
    /\ \/ /\ ehandles' = [ehandles EXCEPT !["file_id"] = "open"]
          /\ efile' = Truncated
          /\ epc' = At("screate", 0)
          /\ UNCHANGED <<eout, eexit>>
       \/ /\ ehandles' = Close([ehandles EXCEPT !["file_id"] = "invalid"],
                               "fapl_id")
          /\ CSI_Exit(1, "Error creating file.")
          /\ UNCHANGED efile
    /\ UNCHANGED <<prog, ewritten, edesc, enested, ethrown>>
    /\ UNCHANGED notE

\* dataspace_id = H5Screate(H5S_SCALAR); the result is not checked
CSI_SCreate ==
    /\ prog = "create_single_int"
    /\ epc = At("screate", 0)
    /\ \E outcome \in {"open", "invalid"} :
          ehandles' = [ehandles EXCEPT !["dataspace_id"] = outcome]
    /\ epc' = At("dcreate", 0)
    /\ UNCHANGED <<prog, efile, ewritten, edesc, enested, ethrown, eout, eexit>>
    /\ UNCHANGED notE

\* dataset_id = H5Dcreate2(file_id, DATASET_NAME, ..., dataspace_id, ...): it
\* fails on an invalid dataspace and may fail otherwise; the result is not
\* checked
CSI_DCreate ==
    /\ prog = "create_single_int"
    /\ epc = At("dcreate", 0)
    /\ \/ /\ ehandles["dataspace_id"] = "open"
          /\ ehandles' = [ehandles EXCEPT !["dataset_id"] = "open"]
          /\ efile' = WithDataset(efile, DATASET_NAME)
       \/ /\ ehandles' = [ehandles EXCEPT !["dataset_id"] = "invalid"]
          /\ UNCHANGED efile
    /\ epc' = At("dwrite", 0)
    /\ UNCHANGED <<prog, ewritten, edesc, enested, ethrown, eout, eexit>>
    /\ UNCHANGED notE

\* status = H5Dwrite(dataset_id, ...): it fails on an invalid dataset and may
\* fail otherwise; status is not looked at
CSI_DWrite ==
    /\ prog = "create_single_int"
    /\ epc = At("dwrite", 0)
    /\ \/ /\ ehandles["dataset_id"] = "open"
          /\ ewritten' = ewritten \cup {DATASET_NAME}
       \/ UNCHANGED ewritten
    /\ epc' = At("report", 0)
    /\ UNCHANGED <<prog, efile, ehandles, edesc, enested, ethrown, eout, eexit>>
    /\ UNCHANGED notE

\* std::cout << "Successfully created ... and wrote the value 42 ..."
CSI_Report ==
    /\ prog = "create_single_int"
    /\ epc = At("report", 0)
    /\ eout' = Append(eout, "Successfully created and wrote the value 42")
    /\ epc' = At("close", 1)
    /\ UNCHANGED <<prog, efile, ewritten, ehandles, edesc, enested, ethrown,
                   eexit>>
    /\ UNCHANGED notE

\* the order of the close calls at the end of main
CloseOrder == <<"dataset_id", "dataspace_id", "fapl_id", "file_id">>

\* H5Dclose, H5Sclose, H5Pclose, H5Fclose in turn
CSI_Close(k) ==
    /\ prog = "create_single_int"
    /\ epc = At("close", k)
    /\ ehandles' = Close(ehandles, CloseOrder[k])
    /\ epc' = IF k < Len(CloseOrder) THEN At("close", k + 1) ELSE At("return", 0)
    /\ UNCHANGED <<prog, efile, ewritten, edesc, enested, ethrown, eout, eexit>>
    /\ UNCHANGED notE

\* return 0
CSI_Return ==
    /\ prog = "create_single_int"
    /\ epc = At("return", 0)
    /\ eexit' = <<0>>
    /\ epc' = At("exited", 0)
    /\ UNCHANGED <<prog, efile, ewritten, ehandles, edesc, enested, ethrown,
                   eout>>
    /\ UNCHANGED notE

NextCreateSingleInt ==
    \/ CSI_PCreate
    \/ CSI_SetLibver
    \/ CSI_FCreate
    \/ CSI_SCreate
    \/ CSI_DCreate
    \/ CSI_DWrite
    \/ CSI_Report
    \/ \E k \in 1..Len(CloseOrder) : CSI_Close(k)
    \/ CSI_Return

-----------------------------------------------------------------------------
(* writescalar.cpp: the C++ API, main has no try block *)

\* what the library or an allocation may throw
ThrownKinds == {"H5::Exception", "std::exception"}

\* an exception nobody catches ends in std::terminate, i.e. abort(): the
\* status the shell sees for SIGABRT
Terminated == 134

\* the statement at step throws; nothing in main catches it
WS_Throw(step) ==
    /\ prog = "writescalar"
    /\ epc = At(step, 0)
    /\ \E kind \in ThrownKinds : ethrown' = <<[step |-> step, kind |-> kind]>>
    /\ eexit' = <<Terminated>>
    /\ epc' = At("exited", 0)
    /\ UNCHANGED <<prog, efile, ewritten, ehandles, edesc, enested, eout>>
    /\ UNCHANGED notE

\* the statement at step completes without an effect on the file
WS_Step(step, next) ==
    /\ prog = "writescalar"
    /\ epc = At(step, 0)
    /\ epc' = At(next, 0)
    /\ UNCHANGED <<prog, efile, ewritten, ehandles, edesc, enested, ethrown,
                   eout, eexit>>
    /\ UNCHANGED notE

\* H5::H5File file("scalar.h5", H5F_ACC_TRUNC)
WS_CreateFile ==
    \/ /\ prog = "writescalar"
       /\ epc = At("start", 0)
       /\ efile' = Truncated
       /\ epc' = At("spaces", 0)
       /\ UNCHANGED <<prog, ewritten, ehandles, edesc, enested, ethrown, eout,
                      eexit>>
       /\ UNCHANGED notE
    \/ WS_Throw("start")

\* scalarSpace, attribute_value, attr_type, attr_space
WS_Spaces ==
    \/ WS_Step("spaces", "int_type")
    \/ WS_Throw("spaces")

\* intType(PredType::NATIVE_INT32), setOrder
WS_IntType ==
    \/ WS_Step("int_type", "create_dataset")
    \/ WS_Throw("int_type")

\* the datasets the statements of main create, in order; those for "byte",
\* "short" and "long" are inside comments
ScalarDatasets == <<"FixedPointValue">>

\* file.createDataSet("FixedPointValue", intType, scalarSpace)
WS_CreateDataSet ==
    \/ /\ prog = "writescalar"
       /\ epc = At("create_dataset", 0)
       /\ efile' = WithDataset(efile, ScalarDatasets[1])
       /\ epc' = At("write", 0)
       /\ UNCHANGED <<prog, ewritten, ehandles, edesc, enested, ethrown, eout,
                      eexit>>
       /\ UNCHANGED notE
    \/ WS_Throw("create_dataset")

\* intDataset.write(&intValue, PredType::NATIVE_INT32)
WS_Write ==
    \/ /\ prog = "writescalar"
       /\ epc = At("write", 0)
       /\ ewritten' = ewritten \cup {ScalarDatasets[1]}
       /\ epc' = At("attribute", 0)
       /\ UNCHANGED <<prog, efile, ehandles, edesc, enested, ethrown, eout,
                      eexit>>
       /\ UNCHANGED notE
    \/ WS_Throw("write")

\* createAttribute, intAttr.write, intAttr.close
WS_Attribute ==
    \/ WS_Step("attribute", "report")
    \/ WS_Throw("attribute")

\* the final message and return 0
WS_Report ==
    /\ prog = "writescalar"
    /\ epc = At("report", 0)
    /\ eout' = Append(eout,
                      "Created scalar.h5 with datasets: byte, short, integer, long")
    /\ eexit' = <<0>>
    /\ epc' = At("exited", 0)
    /\ UNCHANGED <<prog, efile, ewritten, ehandles, edesc, enested, ethrown>>
    /\ UNCHANGED notE

NextWriteScalar ==
    \/ WS_CreateFile
    \/ WS_Spaces
    \/ WS_IntType
    \/ WS_CreateDataSet
    \/ WS_Write
    \/ WS_Attribute
    \/ WS_Report

-----------------------------------------------------------------------------
(* separatetypesgrok.cpp: the C++ API inside try, catch (Exception&) *)

\* the datasets the statements of main create, in order
GrokDatasets ==
    <<"/fixed_point", "/floating_point", "/time", "/string", "/bit_field",
      "/opaque", "/compound", "/dummy", "/reference", "/enumerated", "/array",
      "/variable_length">>

\* the statement at step k throws: catch (Exception&) takes what the library
\* throws, anything else leaves main and ends in std::terminate
SG_Throw(step, k) ==
    /\ prog = "separatetypesgrok"
    /\ epc = At(step, k)
    /\ \E kind \in ThrownKinds :
          /\ ethrown' = <<[step |-> step, kind |-> kind]>>
          /\ IF kind = "H5::Exception"
             THEN /\ epc' = At("catch", 0)
                  /\ UNCHANGED eexit
             ELSE /\ epc' = At("exited", 0)
                  /\ eexit' = <<Terminated>>
    /\ UNCHANGED <<prog, efile, ewritten, ehandles, edesc, enested, eout>>
    /\ UNCHANGED notE

\* H5File file("alltypes_separate.h5", H5F_ACC_TRUNC)
SG_CreateFile ==
    \/ /\ prog = "separatetypesgrok"
       /\ epc = At("start", 0)
       /\ efile' = Truncated
       /\ epc' = At("space", 0)
       /\ UNCHANGED <<prog, ewritten, ehandles, edesc, enested, ethrown, eout,
                      eexit>>
       /\ UNCHANGED notE
    \/ SG_Throw("start", 0)

\* DataSpace scalar_space(H5S_SCALAR)
SG_Space ==
    \/ /\ prog = "separatetypesgrok"
       /\ epc = At("space", 0)
       /\ epc' = At("create", 1)
       /\ UNCHANGED <<prog, efile, ewritten, ehandles, edesc, enested, ethrown,
                      eout, eexit>>
       /\ UNCHANGED notE
    \/ SG_Throw("space", 0)

\* the k-th dataset: its datatype is built where it needs one (H5Tcreate for
\* the time type throws when it fails) and file.createDataSet creates it
SG_Create(k) ==
    \/ /\ prog = "separatetypesgrok"
       /\ epc = At("create", k)
       /\ efile' = WithDataset(efile, GrokDatasets[k])
       /\ epc' = At("write", k)
       /\ UNCHANGED <<prog, ewritten, ehandles, edesc, enested, ethrown, eout,
                      eexit>>
       /\ UNCHANGED notE
    \/ SG_Throw("create", k)

\* the k-th dataset is written
SG_Write(k) ==
    \/ /\ prog = "separatetypesgrok"
       /\ epc = At("write", k)
       /\ ewritten' = ewritten \cup {GrokDatasets[k]}
       /\ epc' = IF k < Len(GrokDatasets) THEN At("create", k + 1)
                 ELSE At("report", 0)
       /\ UNCHANGED <<prog, efile, ehandles, edesc, enested, ethrown, eout,
                      eexit>>
       /\ UNCHANGED notE
    \/ SG_Throw("write", k)

\* the final message, the end of the try block and return 0
SG_Report ==
    /\ prog = "separatetypesgrok"
    /\ epc = At("report", 0)
    /\ eout' = Append(eout, "created successfully with 11 datasets!")
    /\ eexit' = <<0>>
    /\ epc' = At("exited", 0)
    /\ UNCHANGED <<prog, efile, ewritten, ehandles, edesc, enested, ethrown>>
    /\ UNCHANGED notE

\* catch (Exception& e): report on stderr and return 1
SG_Catch ==
    /\ prog = "separatetypesgrok"
    /\ epc = At("catch", 0)
    /\ eout' = Append(eout, "Error: ")
    /\ eexit' = <<1>>
    /\ epc' = At("exited", 0)
    /\ UNCHANGED <<prog, efile, ewritten, ehandles, edesc, enested, ethrown>>
    /\ UNCHANGED notE

NextSeparateTypes ==
    \/ SG_CreateFile
    \/ SG_Space
    \/ \E k \in 1..Len(GrokDatasets) : SG_Create(k)
    \/ \E k \in 1..Len(GrokDatasets) : SG_Write(k)
    \/ SG_Report
    \/ SG_Catch

-----------------------------------------------------------------------------
(* compound_alltypes_nested.cpp: struct Record and its compound descriptor *)

\* a member type of size bytes aligned to its size (char: 1, int16_t: 2,
\* int32_t, int, float: 4, uint64_t, double, size_t, pointers: 8 on LP64)
Scalar(size) == [kind |-> "scalar", size |-> size, align |-> size]

\* T name[n]
ArrayOf(elem, n) == [kind |-> "array", elem |-> elem, n |-> n]

\* struct { members }
StructOf(members) == [kind |-> "struct", members |-> members]

\* a member declaration
Member(name, type) == [name |-> name, type |-> type]

\* no padding is inserted
AlignUp_packed(x, a) == x

\* the least multiple of a that is not below x
AlignUp(x, a) == ((x + a - 1) \div a) * a

RECURSIVE AlignOf(_)
\* alignof: a scalar's own, an array's element's, a struct's strictest member's
AlignOf(type) ==
    CASE type.kind = "scalar" -> type.align
      [] type.kind = "array" -> AlignOf(type.elem)
      [] type.kind = "struct" ->
           LET aligns == {AlignOf(type.members[k].type) :
                            k \in 1..Len(type.members)}
           IN  CHOOSE a \in aligns : \A b \in aligns : b <= a

RECURSIVE SizeOf(_)
RECURSIVE OffsetOf(_, _)
\* offsetof the k-th member: the end of the member before it, aligned up
OffsetOf(type, k) ==
    IF k = 1 THEN 0
    ELSE AlignUp(OffsetOf(type, k - 1) + SizeOf(type.members[k - 1].type),
                 AlignOf(type.members[k].type))

\* sizeof: a struct ends after its last member, padded to its alignment
SizeOf(type) ==
    CASE type.kind = "scalar" -> type.size
      [] type.kind = "array" -> type.n * SizeOf(type.elem)
      [] type.kind = "struct" ->
           LET n == Len(type.members)
           IN  AlignUp(OffsetOf(type, n) + SizeOf(type.members[n].type),
                       AlignOf(type))

\* hvl_t: struct { size_t len; void *p; }
hvl_t == StructOf(<<Member("len", Scalar(8)), Member("p", Scalar(8))>>)

\* hobj_ref_t: haddr_t, an unsigned 64-bit integer
hobj_ref_t == Scalar(8)

\* the anonymous struct of member compound
NestedStruct ==
    StructOf(<<Member("nested_int", Scalar(2)),
               Member("nested_double", Scalar(8))>>)

\* struct Record
Record ==
    StructOf(<<Member("fixed_point", Scalar(4)),
               Member("floating_point", Scalar(4)),
               Member("time", Scalar(8)),
               Member("string", ArrayOf(Scalar(1), 16)),
               Member("bit_field", Scalar(1)),
               Member("opaque", ArrayOf(Scalar(1), 4)),
               Member("compound", NestedStruct),
               Member("reference", hobj_ref_t),
               Member("enumerated", Scalar(4)),
               Member("array", ArrayOf(Scalar(4), 3)),
               Member("variable_length", hvl_t)>>)

\* HOFFSET(Record, name)
HOFFSET(type, name) ==
    OffsetOf(type, CHOOSE k \in 1..Len(type.members) : type.members[k].name = name)

\* the sizes of the HDF5 datatypes given to insertMember, in order
\* (NATIVE_INT32, NATIVE_FLOAT, 8-byte time, 16-char string, B8, 4-byte
\* opaque, nested_type, STD_REF_OBJ, enum of int, 3 x int, vlen)
MemberTypeSize(k) ==
    IF k = 7 THEN enested.size ELSE <<4, 4, 8, 16, 1, 4, 0, 8, 4, 12, 16>>[k]

\* the statement at step k throws
CN_Throw(step, k) ==
    /\ prog = "compound_alltypes_nested"
    /\ epc = At(step, k)
    /\ \E kind \in ThrownKinds :
          /\ ethrown' = <<[step |-> step, kind |-> kind]>>
          /\ IF kind = "H5::Exception"
             THEN /\ epc' = At("catch", 0)
                  /\ UNCHANGED eexit
             ELSE /\ epc' = At("exited", 0)
                  /\ eexit' = <<Terminated>>
    /\ UNCHANGED <<prog, efile, ewritten, ehandles, edesc, enested, eout>>
    /\ UNCHANGED notE

\* cout << sizeof(Record) and the HOFFSET of every member
CN_PrintLayout ==
    /\ prog = "compound_alltypes_nested"
    /\ epc = At("start", 0)
    /\ eout' = Append(eout, "sizeof(Record) and Offsets")
    /\ epc' = At("create_file", 0)
    /\ UNCHANGED <<prog, efile, ewritten, ehandles, edesc, enested, ethrown,
                   eexit>>
    /\ UNCHANGED notE

\* H5File file("compound_alltypes.h5", H5F_ACC_TRUNC)
CN_CreateFile ==
    \/ /\ prog = "compound_alltypes_nested"
       /\ epc = At("create_file", 0)
       /\ efile' = Truncated
       /\ epc' = At("dummy", 0)
       /\ UNCHANGED <<prog, ewritten, ehandles, edesc, enested, ethrown, eout,
                      eexit>>
       /\ UNCHANGED notE
    \/ CN_Throw("create_file", 0)

\* the dataset "dummy" is created and written
CN_Dummy ==
    \/ /\ prog = "compound_alltypes_nested"
       /\ epc = At("dummy", 0)
       /\ efile' = WithDataset(efile, "dummy")
       /\ \/ /\ ewritten' = ewritten \cup {"dummy"}
             /\ epc' = At("comp_type", 0)
             /\ UNCHANGED <<ethrown, eexit>>
          \/ /\ \E kind \in ThrownKinds :
                   /\ ethrown' = <<[step |-> "dummy", kind |-> kind]>>
                   /\ IF kind = "H5::Exception"
                      THEN /\ epc' = At("catch", 0)
                           /\ UNCHANGED eexit
                      ELSE /\ epc' = At("exited", 0)
                           /\ eexit' = <<Terminated>>
             /\ UNCHANGED ewritten
       /\ UNCHANGED <<prog, ehandles, edesc, enested, eout>>
       /\ UNCHANGED notE
    \/ CN_Throw("dummy", 0)

\* CompType compound_type(sizeof(Record))
CN_CompType ==
    \/ /\ prog = "compound_alltypes_nested"
       /\ epc = At("comp_type", 0)
       /\ edesc' = [size |-> SizeOf(Record), members |-> <<>>]
       /\ epc' = At("insert", 1)
       /\ UNCHANGED <<prog, efile, ewritten, ehandles, enested, ethrown, eout,
                      eexit>>
       /\ UNCHANGED notE
    \/ CN_Throw("comp_type", 0)

\* the k-th member's datatype is built and
\* compound_type.insertMember(name, HOFFSET(Record, name), type) adds it
CN_Insert(k) ==
    \/ /\ prog = "compound_alltypes_nested"
       /\ epc = At("insert", k)
       /\ edesc' = [edesc EXCEPT !.members =
                       Append(@, [name |-> Record.members[k].name,
                                  offset |-> HOFFSET(Record, Record.members[k].name),
                                  size |-> MemberTypeSize(k)])]
       /\ epc' = IF k = 6 THEN At("nested", 0)
                 ELSE IF k < Len(Record.members) THEN At("insert", k + 1)
                 ELSE At("create_dataset", 0)
       /\ UNCHANGED <<prog, efile, ewritten, ehandles, enested, ethrown, eout,
                      eexit>>
       /\ UNCHANGED notE
    \/ CN_Throw("insert", k)

\* CompType nested_type(16) with nested_int at 0 and nested_double at 8
CN_Nested ==
    \/ /\ prog = "compound_alltypes_nested"
       /\ epc = At("nested", 0)
       /\ enested' = [size |-> 16,
                      members |-> <<[name |-> "nested_int", offset |-> 0,
                                     size |-> 2],
                                    [name |-> "nested_double", offset |-> 8,
                                     size |-> 8]>>]
       /\ epc' = At("insert", 7)
       /\ UNCHANGED <<prog, efile, ewritten, ehandles, edesc, ethrown, eout,
                      eexit>>
       /\ UNCHANGED notE
    \/ CN_Throw("nested", 0)

\* file.createDataSet("/myDataset", compound_type, dataspace) and the ten
\* records filled in memory
CN_CreateDataSet ==
    \/ /\ prog = "compound_alltypes_nested"
       /\ epc = At("create_dataset", 0)
       /\ efile' = WithDataset(efile, "/myDataset")
       /\ epc' = At("write", 0)
       /\ UNCHANGED <<prog, ewritten, ehandles, edesc, enested, ethrown, eout,
                      eexit>>
       /\ UNCHANGED notE
    \/ CN_Throw("create_dataset", 0)

\* dataset.write(data, compound_type), the final message and return 0
CN_Write ==
    \/ /\ prog = "compound_alltypes_nested"
       /\ epc = At("write", 0)
       /\ ewritten' = ewritten \cup {"/myDataset"}
       /\ eout' = Append(eout, "HDF5 file created successfully with ten compound records!")
       /\ eexit' = <<0>>
       /\ epc' = At("exited", 0)
       /\ UNCHANGED <<prog, efile, ehandles, edesc, enested, ethrown>>
       /\ UNCHANGED notE
    \/ CN_Throw("write", 0)

\* catch (Exception& e): report on stderr and return 1
CN_Catch ==
    /\ prog = "compound_alltypes_nested"
    /\ epc = At("catch", 0)
    /\ eout' = Append(eout, "Error: ")
    /\ eexit' = <<1>>
    /\ epc' = At("exited", 0)
    /\ UNCHANGED <<prog, efile, ewritten, ehandles, edesc, enested, ethrown>>
    /\ UNCHANGED notE

NextCompoundNested ==
    \/ CN_PrintLayout
    \/ CN_CreateFile
    \/ CN_Dummy
    \/ CN_CompType
    \/ \E k \in 1..Len(Record.members) : CN_Insert(k)
    \/ CN_Nested
    \/ CN_CreateDataSet
    \/ CN_Write
    \/ CN_Catch

\* one of the example programs runs, from whatever an earlier run left
NextExamples ==
    \/ NextCreateSingleInt
    \/ NextWriteScalar
    \/ NextSeparateTypes
    \/ NextCompoundNested

SpecExamples == InitExamples /\ [][NextExamples]_vars

-----------------------------------------------------------------------------
(* Properties of getCycledValue *)

\* the least and the greatest value of a two's complement or unsigned type
Lowest(T) == IF T.signed THEN Neg(Pow2(T.bits - 1)) ELSE Zero

Highest(T) ==
    IF T.signed THEN Sub(Pow2(T.bits - 1), One) ELSE Sub(Pow2(T.bits), One)

\* C1: for each of the eight integer types T and every index i >= 0, the
\* value returned by getCycledValue<T>(i) lies in [min(T), max(T)].
C1_InRange ==
    (last # <<>> /\ last[1].index >= 0)
        => /\ Leq(Lowest(last[1].type), last[1].ret)
           /\ Leq(last[1].ret, Highest(last[1].type))

C1_Witness ==
    /\ last # <<>>
    /\ last[1].type = int64_t
    /\ last[1].index = 6
    /\ last[1].ret = Neg(Pow2(62))

\* C2: the generator has period 5: for every index i >= 0 and every type T,
\* the calls getCycledValue<T>(i) and getCycledValue<T>(i + 5) return the
\* same value.
C2_Period5 ==
    (/\ first # <<>>
     /\ first[1].type = last[1].type
     /\ first[1].index >= 0
     /\ last[1].index = first[1].index + cycleLength)
        => last[1].ret = first[1].ret

C2_Witness ==
    /\ first # <<>>
    /\ first[1].type = uint32_t
    /\ first[1].index = 3
    /\ last[1].type = uint32_t
    /\ last[1].index = 8
    /\ last[1].ret = first[1].ret

\* C3: for every k >= 0 and every type T, getCycledValue<T>(5k) is the
\* minimum of T and getCycledValue<T>(5k + 4) is the maximum of T.
C3_MinMaxAtEnds ==
    (last # <<>> /\ last[1].index >= 0)
        => /\ last[1].index % 5 = 0 => last[1].ret = Lowest(last[1].type)
           /\ last[1].index % 5 = 4 => last[1].ret = Highest(last[1].type)

C3_Witness ==
    /\ first # <<>>
    /\ first[1].type = int16_t /\ first[1].index = 5
    /\ first[1].ret = Num(-32768)
    /\ last[1].type = int16_t /\ last[1].index = 9
    /\ last[1].ret = Num(32767)

\* C4: at cycle position 2 (index 5k + 2, k >= 0) the generator returns 0
\* for every signed type and max/2 (integer division) for every unsigned type.
C4_Position2 ==
    (last # <<>> /\ last[1].index >= 0 /\ last[1].index % 5 = 2)
        => last[1].ret = IF last[1].type.signed THEN Zero
                         ELSE Quot(Highest(last[1].type), 2)

C4_Witness ==
    /\ first # <<>>
    /\ first[1].type = int32_t /\ first[1].index = 7 /\ first[1].ret = Zero
    /\ last[1].type = uint16_t /\ last[1].index = 2
    /\ last[1].ret = Num(32767)

\* C5: at cycle position 1 (index 5k + 1, k >= 0) the generator returns
\* max/4 for an unsigned type and -(max/2) - (max mod 2) for a signed type,
\* a value that is at most 0 and at least min.
C5_Position1 ==
    (last # <<>> /\ last[1].index >= 0 /\ last[1].index % 5 = 1)
        => IF last[1].type.signed
           THEN /\ last[1].ret = Sub(Neg(Quot(Highest(last[1].type), 2)),
                                     Rem(Highest(last[1].type), 2))
                /\ Leq(last[1].ret, Zero)
                /\ Leq(Lowest(last[1].type), last[1].ret)
           ELSE last[1].ret = Quot(Highest(last[1].type), 4)

C5_Witness ==
    /\ first # <<>>
    /\ first[1].type = int16_t /\ first[1].index = 1
    /\ first[1].ret = Num(-16384)
    /\ last[1].type = uint16_t /\ last[1].index = 6
    /\ last[1].ret = Num(16383)

\* C6: at cycle position 3 (index 5k + 3, k >= 0) the generator returns
\* max/2 for every signed type and (max/4)*3, the quotient taken first, for
\* every unsigned type.
C6_Position3 ==
    (last # <<>> /\ last[1].index >= 0 /\ last[1].index % 5 = 3)
        => last[1].ret = IF last[1].type.signed
                         THEN Quot(Highest(last[1].type), 2)
                         ELSE Mul(Quot(Highest(last[1].type), 4), 3)

C6_Witness ==
    /\ first # <<>>
    /\ first[1].type = int16_t /\ first[1].index = 3
    /\ first[1].ret = Num(16383)
    /\ last[1].type = uint16_t /\ last[1].index = 8
    /\ last[1].ret = Num(49149)

\* C7: for int8 the indices 0, 1, 2, 3, 4 produce -128, -64, 0, 63, 127.
C7_Int8Scenario ==
    (last # <<>> /\ last[1].type = int8_t /\ last[1].index \in 0..4)
        => last[1].ret = Num(<<-128, -64, 0, 63, 127>>[last[1].index + 1])

C7_Witness ==
    /\ first # <<>>
    /\ first[1].type = int8_t /\ first[1].index = 1 /\ first[1].ret = Num(-64)
    /\ last[1].type = int8_t /\ last[1].index = 3 /\ last[1].ret = Num(63)

\* C8: for uint8 the indices 0, 1, 2, 3, 4 produce 0, 63, 127, 189, 255.
C8_Uint8Scenario ==
    (last # <<>> /\ last[1].type = uint8_t /\ last[1].index \in 0..4)
        => last[1].ret = Num(<<0, 63, 127, 189, 255>>[last[1].index + 1])

C8_Witness ==
    /\ first # <<>>
    /\ first[1].type = uint8_t /\ first[1].index = 3 /\ first[1].ret = Num(189)
    /\ last[1].type = uint8_t /\ last[1].index = 4 /\ last[1].ret = Num(255)

\* C9: getCycledValue is a pure function of (index, type): a call returns
\* what the first call with the same type and index returned, whatever
\* calls were made in between and whatever the storage of its locals held.
C9_Pure ==
    (/\ first # <<>>
     /\ last[1].type = first[1].type
     /\ last[1].index = first[1].index)
        => /\ last[1].ret = first[1].ret
           /\ last[1].how = first[1].how

\* the same call made again with a call of another type in between
C9_Witness ==
    /\ ncalls >= 3
    /\ first[1].type = int64_t /\ first[1].index = 2
    /\ last[1].type = int64_t /\ last[1].index = 2
    /\ last[1].ret = first[1].ret

C13_SignedPosition1Exact ==
    (/\ last # <<>>
     /\ last[1].type.signed
     /\ last[1].index >= 0
     /\ last[1].index % 5 = 1)
        => /\ last[1].ret = Neg(Pow2(last[1].type.bits - 2))
           /\ last[1].ret = Quot(Lowest(last[1].type), 2)
           /\ ~undefined(last[1].type, last[1].index)
           /\ Representable(last[1].type,
                            Sub(Neg(Quot(Highest(last[1].type), 2)), One))
           /\ ~max_nonpositive(last[1].type)
           /\ ~wrapped(last[1].type)

C13_Witness ==
    /\ last # <<>>
    /\ last[1].type = int64_t
    /\ last[1].index = 1
    /\ last[1].ret = Neg(Pow2(62))
    /\ ~wrapped(int64_t)

\* C14: for every unsigned width w in {8, 16, 32, 64} the position-3
\* product (max/4)*3 does not exceed max, so it is computed without
\* wrap-around modulo 2^w, and it equals 3*2^(w-2) - 3.
C14_UnsignedPosition3Exact ==
    (/\ last # <<>>
     /\ ~last[1].type.signed
     /\ last[1].index >= 0
     /\ last[1].index % 5 = 3)
        => /\ Leq(Mul(q1(last[1].type), 3), Highest(last[1].type))
           /\ last[1].ret = Mul(q1(last[1].type), 3)
           /\ last[1].ret = Sub(Mul(Pow2(last[1].type.bits - 2), 3), Num(3))
           /\ ~undefined(last[1].type, last[1].index)

C14_Witness ==
    /\ last # <<>>
    /\ last[1].type = uint32_t
    /\ last[1].index = 8
    /\ last[1].ret = Sub(Mul(Pow2(30), 3), Num(3))

\* C15: for each of the eight types the values at the cycle positions
\* 0, 1, 2, 3, 4 are strictly increasing: the value at a position below 4
\* is less than the value at the next position.
C15_StrictlyIncreasing ==
    (/\ first # <<>>
     /\ first[1].type = last[1].type
     /\ first[1].index >= 0
     /\ first[1].index % 5 # 4
     /\ last[1].index = first[1].index + 1)
        => Less(first[1].ret, last[1].ret)

C15_Witness ==
    /\ first # <<>>
    /\ first[1].type = int32_t /\ first[1].index = 2
    /\ last[1].type = int32_t /\ last[1].index = 3
    /\ Less(first[1].ret, last[1].ret)

\* C16: for a negative index the generator returns the minimum of the type
\* when the index is a multiple of 5 and the maximum of the type otherwise.
C16_NegativeIndex ==
    (last # <<>> /\ last[1].index < 0)
        => last[1].ret = IF (0 - last[1].index) % 5 = 0
                         THEN Lowest(last[1].type)
                         ELSE Highest(last[1].type)

C16_Witness ==
    /\ first # <<>>
    /\ first[1].type = int8_t /\ first[1].index = -5
    /\ first[1].ret = Num(-128)
    /\ last[1].type = int8_t /\ last[1].index = -3
    /\ last[1].ret = Num(127)

\* C11: a call of getCycledValue made by a thread while other threads make
\* calls of their own returns the value the same call returns when it is
\* made alone, whatever the interleaving of the calls.
C11_ThreadsIndependent ==
    \A t \in Threads :
        thr[t].pc = "done"
            => thr[t].ret[1] = getCycledValue(thr[t].args[1].type,
                                              thr[t].args[1].index,
                                              min_val(thr[t].args[1].type))

\* two calls that overlapped, of different types and positions, both returned
C11_Witness ==
    /\ thr[1].pc = "done" /\ thr[1].overlapped
    /\ thr[2].pc = "done" /\ thr[2].overlapped
    /\ thr[1].args[1] = [type |-> int8_t, index |-> 1]
    /\ thr[2].args[1] = [type |-> uint64_t, index |-> 3]
    /\ thr[1].ret[1] = Num(-64)

-----------------------------------------------------------------------------
(* Properties of the compound writer *)

\* the generator calls made with index i, in the order they were made
CallsWithIndex(i) ==
    LET WithIndex(c) == c.index = i IN SelectSeq(gencalls, WithIndex)

\* C12: for every record i in 0..NUM_RECORDS-1 the generator is invoked
\* exactly once for each of the eight integer fields, with index i, so the
\* eight fields hold the values of cycle position i mod 5; the dataset write
\* is issued at most once, and only when every record is fully populated.
C12_OncePerFieldBeforeWrite ==
    /\ \A k \in 1..Len(gencalls) : gencalls[k].index \in 0..(NUM_RECORDS - 1)
    /\ \A i \in 0..(NUM_RECORDS - 1) :
          /\ Len(CallsWithIndex(i)) <= 8
          /\ (records # <<>> /\ i < wi)
                => /\ CallsWithIndex(i) =
                        [k \in 1..8 |->
                           [type |-> <<"int8_t", "uint8_t", "int16_t", "uint16_t",
                                       "int32_t", "uint32_t", "int64_t",
                                       "uint64_t">>[k],
                            index |-> i]]
                   /\ \A k \in 1..8 :
                        records[i + 1][FieldNames[k]] =
                            <<switch_result(
                                <<int8_t, uint8_t, int16_t, uint16_t, int32_t,
                                  uint32_t, int64_t, uint64_t>>[k], i % 5)>>
    /\ Len(written) <= 1
    /\ (written # <<>> \/ wpc \in {"write_data", "return"} \/ wexit = <<0>>)
          => /\ wi = NUM_RECORDS
             /\ Len(records) = NUM_RECORDS
             /\ \A k \in 1..NUM_RECORDS : \A f \in AllFields : records[k][f] # <<>>
    /\ written # <<>> => written[1] = records

C12_Witness ==
    /\ wexit = <<0>>
    /\ Len(written) = 1
    /\ Len(gencalls) = 8 * NUM_RECORDS
    /\ written[1][7]["int8_Val"] = <<Num(-64)>>
    /\ written[1][7]["uint8_Val"] = <<Num(63)>>

C20_SuccessOnlyWithoutException ==
    LET printed ==
            \E k \in 1..Len(wout) : wout[k] = "HDF5 file written successfully"
    IN  /\ (wexit = <<0>> \/ printed)
              => /\ {"create_file", "create_dataset", "write_attribute",
                     "write_data"} \subseteq wsteps
                 /\ wthrown = <<>>
        /\ wexit = <<0>> => printed
        /\ wthrown # <<>> => ~printed
        /\ (wthrown # <<>> /\ wpc = "exited") => wexit = <<1>>

C20_Witness ==
    /\ wpc = "exited"
    /\ wthrown = <<[step |-> "write_data", kind |-> "unknown"]>>
    /\ wexit = <<1>>
    /\ wi = NUM_RECORDS

-----------------------------------------------------------------------------
(* Properties of the compound reader *)

\* the reader has printed msg
ReaderPrinted(msg) == \E k \in 1..Len(rout) : rout[k] = msg

C19_ReclaimOnceAfterUse ==
    /\ rreclaims <= 1
    /\ rreclaims >= 1 =>
          /\ rreads = <<[offset |-> 0, count |-> rcount[1], ok |-> TRUE]>>
          /\ Len(ruses) = Len(rbuf)
          /\ \A j \in 1..Len(rbuf) : ruses[j].record = j - 1
    /\ \A k \in 1..Len(ruses) : ruses[k].live
    /\ rlive = "reclaimed" => rreclaims = 1

\* ten strings have been printed and then reclaimed
C19_Witness ==
    /\ rreclaims = 1
    /\ rlive = "reclaimed"
    /\ Len(ruses) = 10
    /\ rpc = "exited"

-----------------------------------------------------------------------------
(* Properties of the stand-alone example programs *)

\* the example program has printed msg
ExamplePrinted(msg) == \E k \in 1..Len(eout) : eout[k] = msg

\* C21: when create_single_int has returned, on whichever path (property-list
\* creation failed, version bounds failed, file creation failed, or normal
\* completion), no handle it opened successfully is still open: each of the
\* property list, file, dataspace and dataset is closed or was never valid.
C21_HandlesClosedOnExit ==
    (prog = "create_single_int" /\ epc = At("exited", 0)) =>
        /\ \A h \in HandleNames : ehandles[h] # "open"
        /\ eexit = <<0>> =>
             \A h \in HandleNames : ehandles[h] \in {"closed", "invalid"}
        /\ eexit = <<1>> =>
             /\ ehandles["fapl_id"] \in {"closed", "invalid"}
             /\ ehandles["file_id"] \in {"none", "invalid"}
             /\ ehandles["dataspace_id"] = "none"
             /\ ehandles["dataset_id"] = "none"

\* create_single_int has completed normally with all four handles opened and
\* closed
C21_Witness ==
    /\ prog = "create_single_int"
    /\ epc = At("exited", 0)
    /\ eexit = <<0>>
    /\ \A h \in HandleNames : ehandles[h] = "closed"

\* C22: create_single_int prints its success message and exits with status 0
\* only if the dataspace creation, the dataset creation and the dataset write
\* all succeeded.
C22_SuccessOnlyIfWritten ==
    (/\ prog = "create_single_int"
     /\ eexit = <<0>>
     /\ ExamplePrinted("Successfully created and wrote the value 42")) =>
        /\ ehandles["dataspace_id"] # "invalid"
        /\ ehandles["dataset_id"] # "invalid"
        /\ DATASET_NAME \in ewritten

\* C23: after writescalar has run to completion, the file scalar.h5 contains
\* the four datasets named byte, short, integer and long that its final
\* message lists.
C23_FourScalarDatasets ==
    (/\ prog = "writescalar"
     /\ eexit = <<0>>
     /\ ExamplePrinted("Created scalar.h5 with datasets: byte, short, integer, long"))
        => {"byte", "short", "integer", "long"} \subseteq efile.datasets

\* C24: when separatetypesgrok has completed successfully, the file
\* alltypes_separate.h5 contains exactly 11 datasets, the number its final
\* message reports.
C24_ElevenDatasets ==
    (/\ prog = "separatetypesgrok"
     /\ eexit = <<0>>
     /\ ExamplePrinted("created successfully with 11 datasets!"))
        => Cardinality(efile.datasets) = 11

\* the offsets the comments of struct Record state, in member order
CommentOffsets == <<0, 4, 8, 16, 32, 33, 40, 56, 64, 68, 80>>

\* C25: under natural alignment on LP64 the members of Record lie at the
\* offsets its comments state (0, 4, 8, 16, 32, 33, 40, 56, 64, 68, 80), the
\* members the program has put into the compound descriptor carry these
\* offsets and occupy pairwise disjoint byte ranges within sizeof(Record), and
\* the nested descriptor's hard-coded layout (nested_int at 0, nested_double
\* at 8, size 16) is the layout of the nested struct.
C25_RecordLayout ==
    prog = "compound_alltypes_nested" =>
        /\ \A k \in 1..Len(Record.members) :
              OffsetOf(Record, k) = CommentOffsets[k]
        /\ \A k \in 1..Len(edesc.members) :
              /\ edesc.members[k].name = Record.members[k].name
              /\ edesc.members[k].offset = CommentOffsets[k]
              /\ edesc.members[k].size = SizeOf(Record.members[k].type)
              /\ edesc.members[k].offset + edesc.members[k].size <= edesc.size
              /\ edesc.size = SizeOf(Record)
              /\ \A j \in 1..(k - 1) :
                    edesc.members[j].offset + edesc.members[j].size
                        <= edesc.members[k].offset
        /\ enested # EmptyDesc =>
              /\ enested.size = SizeOf(NestedStruct)
              /\ Len(enested.members) = Len(NestedStruct.members)
              /\ \A k \in 1..Len(enested.members) :
                    /\ enested.members[k].name = NestedStruct.members[k].name
                    /\ enested.members[k].offset = OffsetOf(NestedStruct, k)
                    /\ enested.members[k].size =
                           SizeOf(NestedStruct.members[k].type)

\* the program has completed with all eleven members in the descriptor
C25_Witness ==
    /\ prog = "compound_alltypes_nested"
    /\ Len(edesc.members) = 11
    /\ enested.size = 16
    /\ edesc.size = 96
    /\ eexit = <<0>>

====
